---- MODULE Spec2Model ----
(***************************************************************************)
(* The ipfs_ks ink! contract (src/contracts/ipfs_ks/lib.rs): a ledger of   *)
(* account balances, a registry of files keyed by content hash, and the    *)
(* charge that joins them.  Every message is one atomic step (the host     *)
(* serialises calls); a message that panics traps, and a trapped call      *)
(* leaves the storage as it was and returns nothing.                       *)
(***************************************************************************)
EXTENDS Integers, Sequences, FiniteSets, TLC

\* ------------------------------------------------------------------ bounds

\* Balance is u128 in the source; the model keeps the type's shape (unsigned,
\* arithmetic modulo BalanceMax + 1) at a reduced width.
BalanceMax == 1023

\* The operation counter of a file is i32 in the source; reduced width.
I32Max == 7

\* The number of calls made to the contract in one behaviour.
MaxCalls == 6

\* ------------------------------------------------------------------ inputs

AccountId == {"A", "B"}

Hash == {"H", "G"}

Timestamp == {1, 2}

\* The amounts callers pass to register, deposit and withdraw.
Values == {0, 50, 150, 1000, BalanceMax}

NoHash == "-"

VARIABLES
    balances,         \* storage: InkHashMap<AccountId, Balance>
    files,            \* storage: InkHashMap<Hash, (AccountId, i32)>
    events,           \* the events emitted so far, in order
    last,             \* the last call: message, inputs and what it returned
    overflow_checks,  \* whether the build traps on integer overflow
    calls,            \* the number of calls made so far
    script            \* how much of Scenario the calls so far have followed

vars == <<balances, files, events, last, overflow_checks, calls, script>>

\* ------------------------------------------------------------ storage maps

EmptyMap == [k \in {} |-> 0]

\* InkHashMap::insert: add the entry or overwrite the one that is there.
Insert(m, k, v) == [x \in (DOMAIN m) \cup {k} |-> IF x = k THEN v ELSE m[x]]

\* InkHashMap::get(..).is_some()
Has(m, k) == k \in DOMAIN m

num_users == Cardinality(DOMAIN balances)

num_files == Cardinality(DOMAIN files)

is_user_registered(account) == Has(balances, account)

balance_or_zero(bal, owner) == IF Has(bal, owner) THEN bal[owner] ELSE 0

\* fn balance(&self): the caller's balance, 0 when the caller is unregistered.
balance(caller) == IF ~Has(balances, caller) THEN 0 ELSE balance_or_zero(balances, caller)

\* ------------------------------------------------------------- arithmetic

\* An unsigned result outside the type: the build either traps or wraps.
Overflows(x) == x < 0 \/ x > BalanceMax

Wrap(x) == x % (BalanceMax + 1)

\* i32 addition that wraps (two's complement) when the build does not trap.
I32Overflows(x) == x > I32Max \/ x < 0 - I32Max - 1

I32Wrap(x) == ((x + I32Max + 1) % (2 * (I32Max + 1))) - (I32Max + 1)

\* ------------------------------------------------------------------- cost

\* f32 values are held as integers scaled by 2^23, the f32 fraction width:
\* every f32 of magnitude >= 1 is such an integer with at most 24
\* significant bits.
RECURSIVE Pow2(_)
Pow2(n) == IF n = 0 THEN 1 ELSE 2 * Pow2(n - 1)

F32One == Pow2(23)

\* The literal 1.07 as f32: 8975811 / 2^23 = 1.07000005245208740234375.
Mantissa107 == 8975811

Abs(n) == IF n < 0 THEN 0 - n ELSE n

\* The spacing of the f32 values around a scaled magnitude n.
RECURSIVE Ulp(_)
Ulp(n) == IF n < Pow2(24) THEN 1 ELSE 2 * Ulp(n \div 2)

\* Round to the nearest f32, ties to even (the result of every f32 operation).
F32Round(n) ==
    LET a == Abs(n)
        m == Ulp(a)
        q == a \div m
        r == a % m
        up == 2 * r > m \/ (2 * r = m /\ q % 2 = 1)
        v == (IF up THEN q + 1 ELSE q) * m
    IN  IF n < 0 THEN 0 - v ELSE v

\* let base_cost: f32 = match op { Create => 3., Read => 2., Write => 3. }
base_cost(op) ==
    CASE op = "Create" -> 3
      [] op = "Read" -> 2
      [] op = "Write" -> 3

\* (base_cost + 1.07 * t) as u128, t = the counter as f32: the product and the
\* sum are each rounded to f32, the cast truncates toward zero and gives 0
\* for a negative value.
cost(op, t) ==
    LET prod == F32Round(Mantissa107 * t)
        sum == F32Round(base_cost(op) * F32One + prod)
    IN  IF sum < 0 THEN 0 ELSE sum \div F32One

\* fn charge(&mut self, account, hash, op) -> bool.  The record of the hash
\* is unwrapped without a check: with no record the call panics.  The result
\* is the outcome ("abort", "false" or "true") and the ledger afterwards.
charge(bal, fls, account, hash, op) ==
    IF ~Has(fls, hash)
    THEN [status |-> "abort", balances |-> bal]
    ELSE LET t == fls[hash].count
             c == cost(op, t)
             b == balance_or_zero(bal, account)
         IN  IF c > b
             THEN [status |-> "false", balances |-> bal]
             ELSE [status |-> "true", balances |-> Insert(bal, account, b - c)]

\* ---------------------------------------------------------------- calls

Call(op, who, hash, value) == [op |-> op, who |-> who, hash |-> hash, value |-> value]

\* The round trip of the specification's section 8, from the empty contract.
Scenario ==
    << Call("register", "A", NoHash, 1000),
       Call("add_file", "A", "H", 0),
       Call("write_file", "A", "H", 0),
       Call("write_file", "A", "H", 0),
       Call("write_file", "A", "H", 0),
       Call("read_file", "A", "H", 0) >>

OffScript == Len(Scenario) + 1

Follow(c) ==
    IF script < Len(Scenario) /\ c = Scenario[script + 1]
    THEN script + 1
    ELSE OffScript

\* The call c ends: what it gave back is recorded, the storage is as the
\* message left it.
Returned(c, status, amount) ==
    /\ last' = [op |-> c.op, who |-> c.who, hash |-> c.hash, value |-> c.value,
                status |-> status, amount |-> amount]
    /\ calls' = calls + 1
    /\ script' = Follow(c)
    /\ UNCHANGED overflow_checks

\* return false before anything was written.
Fails(c) == UNCHANGED <<balances, files, events>> /\ Returned(c, "false", 0)

\* The call panics: the contract traps and the storage is what it was.
Aborts(c) == UNCHANGED <<balances, files, events>> /\ Returned(c, "abort", 0)

\* ------------------------------------------------------------- messages

\* register without the is_user_registered check: the entry is overwritten.
register_overwrite(account, initial_balance) ==
    LET c == Call("register", account, NoHash, initial_balance)
    IN  /\ calls < MaxCalls
        /\ balances' = Insert(balances, account, initial_balance)
        /\ UNCHANGED <<files, events>>
        /\ Returned(c, "true", 0)

\* register that inserts first and checks afterwards: a registered account
\* is refused, with its balance already replaced.
register_insert_first(account, initial_balance) ==
    LET c == Call("register", account, NoHash, initial_balance)
    IN  /\ calls < MaxCalls
        /\ balances' = Insert(balances, account, initial_balance)
        /\ UNCHANGED <<files, events>>
        /\ Returned(c, IF is_user_registered(account) THEN "false" ELSE "true", 0)

\* fn register(&mut self, account, initial_balance) -> bool
register(account, initial_balance) ==
    LET c == Call("register", account, NoHash, initial_balance)
    IN  /\ calls < MaxCalls
        /\ IF is_user_registered(account)
           THEN Fails(c)
           ELSE /\ balances' = Insert(balances, account, initial_balance)
                /\ UNCHANGED <<files, events>>
                /\ Returned(c, "true", 0)

\* deposit without the registration check: balance_or_zero gives 0 and an
\* entry is made for the unregistered caller.
deposit_unchecked(caller, value) ==
    LET c == Call("deposit", caller, NoHash, value)
        sum == balance_or_zero(balances, caller) + value
    IN  /\ calls < MaxCalls
        /\ IF Overflows(sum) /\ overflow_checks
           THEN Aborts(c)
           ELSE /\ balances' = Insert(balances, caller, Wrap(sum))
                /\ UNCHANGED <<files, events>>
                /\ Returned(c, "true", 0)

\* deposit that credits the value to every registered account, not only to
\* the caller.
deposit_all(caller, value) ==
    LET c == Call("deposit", caller, NoHash, value)
        sum == balance_or_zero(balances, caller) + value
    IN  /\ calls < MaxCalls
        /\ IF ~Has(balances, caller)
           THEN Fails(c)
           ELSE IF Overflows(sum) /\ overflow_checks
           THEN Aborts(c)
           ELSE /\ balances' = [a \in DOMAIN balances |-> Wrap(balances[a] + value)]
                /\ UNCHANGED <<files, events>>
                /\ Returned(c, "true", 0)

\* fn deposit(&mut self, value) -> bool
deposit(caller, value) ==
    LET c == Call("deposit", caller, NoHash, value)
        sum == balance_or_zero(balances, caller) + value
    IN  /\ calls < MaxCalls
        /\ IF ~Has(balances, caller)
           THEN Fails(c)
           ELSE IF Overflows(sum) /\ overflow_checks
           THEN Aborts(c)
           ELSE /\ balances' = Insert(balances, caller, Wrap(sum))
                /\ UNCHANGED <<files, events>>
                /\ Returned(c, "true", 0)

\* withdraw without the value > balance check: the subtraction underflows.
withdraw_unguarded(caller, value) ==
    LET c == Call("withdraw", caller, NoHash, value)
        b == balance_or_zero(balances, caller)
    IN  /\ calls < MaxCalls
        /\ IF ~Has(balances, caller)
           THEN UNCHANGED <<balances, files, events>> /\ Returned(c, "value", 0)
           ELSE IF Overflows(b - value) /\ overflow_checks
           THEN Aborts(c)
           ELSE /\ balances' = Insert(balances, caller, Wrap(b - value))
                /\ UNCHANGED <<files, events>>
                /\ Returned(c, "value", value)

\* withdraw that refuses value >= balance: the whole balance cannot be taken.
withdraw_ge(caller, value) ==
    LET c == Call("withdraw", caller, NoHash, value)
        b == balance_or_zero(balances, caller)
    IN  /\ calls < MaxCalls
        /\ IF ~Has(balances, caller)
           THEN UNCHANGED <<balances, files, events>> /\ Returned(c, "value", 0)
           ELSE IF value >= b
           THEN UNCHANGED <<balances, files, events>> /\ Returned(c, "value", 0)
           ELSE /\ balances' = Insert(balances, caller, Wrap(b - value))
                /\ UNCHANGED <<files, events>>
                /\ Returned(c, "value", value)

\* withdraw that drops the ledger entry of an account it has emptied.
withdraw_prune(caller, value) ==
    LET c == Call("withdraw", caller, NoHash, value)
        b == balance_or_zero(balances, caller)
    IN  /\ calls < MaxCalls
        /\ IF ~Has(balances, caller)
           THEN UNCHANGED <<balances, files, events>> /\ Returned(c, "value", 0)
           ELSE IF value > b
           THEN UNCHANGED <<balances, files, events>> /\ Returned(c, "value", 0)
           ELSE /\ balances' = IF b - value = 0
                               THEN [a \in (DOMAIN balances) \ {caller} |-> balances[a]]
                               ELSE Insert(balances, caller, b - value)
                /\ UNCHANGED <<files, events>>
                /\ Returned(c, "value", value)

\* fn withdraw(&mut self, value) -> Balance
withdraw(caller, value) ==
    LET c == Call("withdraw", caller, NoHash, value)
        b == balance_or_zero(balances, caller)
    IN  /\ calls < MaxCalls
        /\ IF ~Has(balances, caller)
           THEN UNCHANGED <<balances, files, events>> /\ Returned(c, "value", 0)
           ELSE IF value > b
           THEN UNCHANGED <<balances, files, events>> /\ Returned(c, "value", 0)
           ELSE IF Overflows(b - value) /\ overflow_checks
           THEN Aborts(c)
           ELSE /\ balances' = Insert(balances, caller, Wrap(b - value))
                /\ UNCHANGED <<files, events>>
                /\ Returned(c, "value", value)

\* fn add_file(&mut self, hash) -> bool
add_file(caller, hash) ==
    LET c == Call("add_file", caller, hash, 0)
        paid == charge(balances, files, caller, hash, "Create")
    IN  /\ calls < MaxCalls
        /\ IF ~Has(balances, caller)
           THEN Fails(c)
           ELSE IF Has(files, hash)
           THEN Fails(c)
           ELSE IF paid.status = "abort"
           THEN Aborts(c)
           ELSE IF paid.status = "false"
           THEN /\ balances' = paid.balances
                /\ UNCHANGED <<files, events>>
                /\ Returned(c, "false", 0)
           ELSE \E ts \in Timestamp :
                /\ balances' = paid.balances
                /\ files' = Insert(files, hash, [owner |-> caller, count |-> 0])
                /\ events' = Append(events, [kind |-> "FileCreated", owner |-> caller,
                                             hash |-> hash, ts |-> ts])
                /\ Returned(c, "true", 0)

\* fn remove_file(&mut self, hash) -> bool
remove_file(caller, hash) ==
    LET c == Call("remove_file", caller, hash, 0)
    IN  /\ calls < MaxCalls
        /\ IF ~Has(balances, caller)
           THEN Fails(c)
           ELSE IF ~Has(files, hash)
           THEN Fails(c)
           ELSE \E ts \in Timestamp :
                /\ events' = Append(events, [kind |-> "FileRemoved", hash |-> hash,
                                             ts |-> ts])
                /\ UNCHANGED <<balances, files>>
                /\ Returned(c, "true", 0)

\* The common body of write_file and read_file: charge, count the access,
\* emit the event.
access(c, op, kind) ==
    LET paid == charge(balances, files, c.who, c.hash, op)
    IN  /\ calls < MaxCalls
        /\ IF ~Has(balances, c.who)
           THEN Fails(c)
           ELSE IF ~Has(files, c.hash)
           THEN Fails(c)
           ELSE IF paid.status = "abort"
           THEN Aborts(c)
           ELSE IF paid.status = "false"
           THEN /\ balances' = paid.balances
                /\ UNCHANGED <<files, events>>
                /\ Returned(c, "false", 0)
           ELSE LET stats == files[c.hash]
                    n == stats.count + 1
                IN  IF I32Overflows(n) /\ overflow_checks
                    THEN Aborts(c)
                    ELSE \E ts \in Timestamp :
                         /\ balances' = paid.balances
                         /\ files' = Insert(files, c.hash,
                                            [owner |-> stats.owner, count |-> I32Wrap(n)])
                         /\ events' = Append(events, [kind |-> kind, hash |-> c.hash,
                                                      ts |-> ts])
                         /\ Returned(c, "true", 0)

\* fn write_file(&mut self, hash) -> bool
write_file(caller, hash) ==
    access(Call("write_file", caller, hash, 0), "Write", "FileModified")

\* fn read_file(&mut self, hash) -> bool
read_file(caller, hash) ==
    access(Call("read_file", caller, hash, 0), "Read", "FileRead")

\* ------------------------------------------------------- specification

\* fn new() -> Self: both maps empty.  No call has been made.
Init ==
    /\ balances = EmptyMap
    /\ files = EmptyMap
    /\ events = << >>
    /\ last = [op |-> "new", who |-> "-", hash |-> NoHash, value |-> 0,
               status |-> "true", amount |-> 0]
    /\ overflow_checks \in BOOLEAN
    /\ calls = 0
    /\ script = 0

Next ==
    \/ \E account \in AccountId, v \in Values : register(account, v)
    \/ \E caller \in AccountId, v \in Values : deposit(caller, v)
    \/ \E caller \in AccountId, v \in Values : withdraw(caller, v)
    \/ \E caller \in AccountId, h \in Hash : add_file(caller, h)
    \/ \E caller \in AccountId, h \in Hash : remove_file(caller, h)
    \/ \E caller \in AccountId, h \in Hash : write_file(caller, h)
    \/ \E caller \in AccountId, h \in Hash : read_file(caller, h)

Spec == Init /\ [][Next]_vars

TypeOK ==
    /\ DOMAIN balances \subseteq AccountId
    /\ \A a \in DOMAIN balances : balances[a] \in 0..BalanceMax
    /\ DOMAIN files \subseteq Hash
    /\ \A h \in DOMAIN files :
          files[h].owner \in AccountId /\ files[h].count \in (0 - I32Max - 1)..I32Max
    /\ calls \in 0..MaxCalls
    /\ script \in 0..OffScript

\* ------------------------------------------------------------- properties

\* floor(base + 1.07 * t) in exact arithmetic, as the specification writes it.
Floor107(base, t) == (100 * base + 107 * t) \div 100

\* No record is ever created and no event is ever emitted: add_file reaches
\* charge only for a hash with no record, and charge panics there.
NoRecordEver == files = EmptyMap /\ events = << >>

\* C1: for every registered caller O with balance >= 3 and every hash H with
\* no record, add_file(H) returns true, inserts a record for H owned by O
\* with access_count 0, lowers O's balance by exactly 3 and emits one
\* FileCreated{O, H, ts}.
C1_AddFileCreates ==
    [][ ( /\ last'.op = "add_file"
          /\ Has(balances, last'.who)
          /\ balances[last'.who] >= 3
          /\ ~Has(files, last'.hash) )
        => LET o == last'.who
               h == last'.hash
           IN  /\ last'.status = "true"
               /\ Has(files', h)
               /\ files'[h] = [owner |-> o, count |-> 0]
               /\ balances'[o] = balances[o] - 3
               /\ Len(events') = Len(events) + 1
               /\ events'[Len(events')].kind = "FileCreated"
               /\ events'[Len(events')].owner = o
               /\ events'[Len(events')].hash = h ]_vars

\* C2: write_file(H) on a file with access_count t, by a registered caller
\* who can pay floor(3 + 1.07 t), debits exactly that and sets access_count
\* to t + 1; the three write_file calls that follow register(A, 1000) and
\* add_file(H) in Scenario charge 3, 4 and 5.
C2_WriteCharges ==
    [][ /\ ( /\ last'.op = "write_file"
             /\ Has(balances, last'.who)
             /\ Has(files, last'.hash)
             /\ balances[last'.who] >= Floor107(3, files[last'.hash].count) )
           => /\ last'.status = "true"
              /\ balances'[last'.who] =
                     balances[last'.who] - Floor107(3, files[last'.hash].count)
              /\ files'[last'.hash].count = files[last'.hash].count + 1
        /\ script' = 3 => balances["A"] - balances'["A"] = 3
        /\ script' = 4 => balances["A"] - balances'["A"] = 4
        /\ script' = 5 => balances["A"] - balances'["A"] = 5 ]_vars

\* A call that gave its failure indicator: false, or 0 from withdraw.
FailureReturned(l) ==
    l.status = "false" \/ (l.op = "withdraw" /\ l.status = "value" /\ l.amount = 0)

\* C4: a call of register, deposit, withdraw, add_file, remove_file,
\* write_file or read_file that returns its failure indicator (false, or 0
\* for withdraw) leaves the whole ledger and the whole registry as they were.
C4_FailureChangesNothing ==
    [][ FailureReturned(last') => (balances' = balances /\ files' = files) ]_vars

\* C4 witness: with B registered at 150 and at least two earlier calls, a
\* read_file by a registered caller has been refused for a missing hash.
C4_Witness ==
    /\ last.op = "read_file"
    /\ last.status = "false"
    /\ Has(balances, last.who)
    /\ Has(balances, "B") /\ balances["B"] = 150
    /\ calls >= 3

\* C5: every balance is >= 0 in every reachable state, and no withdraw or
\* charge subtracts more than the balance it finds: the balance of an
\* account never goes up in a withdraw, add_file, write_file or read_file.
C5_NoUnderflow ==
    [][ \A a \in DOMAIN balances' :
          /\ balances'[a] >= 0
          /\ ( /\ a \in DOMAIN balances
               /\ last'.op \in {"withdraw", "add_file", "write_file", "read_file"} )
             => balances'[a] <= balances[a] ]_vars

\* C5 witness: a withdraw has taken a positive amount and left a balance.
C5_Witness ==
    /\ last.op = "withdraw"
    /\ last.amount = 150
    /\ Has(balances, last.who)
    /\ balances[last.who] = 850

\* C6: register(A, b) on an unregistered A returns true and makes the balance
\* of A equal to b; on a registered A it returns false and leaves the ledger
\* (A's balance, the number of users) unchanged, for every b.
C6_Register ==
    [][ last'.op = "register"
        => IF ~Has(balances, last'.who)
           THEN /\ last'.status = "true"
                /\ Has(balances', last'.who)
                /\ balances'[last'.who] = last'.value
           ELSE /\ last'.status = "false"
                /\ balances'[last'.who] = balances[last'.who]
                /\ Cardinality(DOMAIN balances') = Cardinality(DOMAIN balances) ]_vars

\* C6 witness: a second register of a registered account, with another
\* balance, has been refused.
C6_Witness ==
    /\ last.op = "register"
    /\ last.status = "false"
    /\ last.value = 1000
    /\ balances[last.who] = 150

\* C7: withdraw(v) by a registered caller with balance B returns 0 and leaves
\* B when v > B, returns v and leaves B - v when v <= B; by an unregistered
\* caller it returns 0 and creates no ledger entry.
C7_Withdraw ==
    [][ last'.op = "withdraw"
        => LET a == last'.who
               v == last'.value
           IN  /\ last'.status = "value"
               /\ IF ~Has(balances, a)
                  THEN last'.amount = 0 /\ ~Has(balances', a)
                  ELSE IF v > balances[a]
                  THEN last'.amount = 0 /\ balances'[a] = balances[a]
                  ELSE last'.amount = v /\ balances'[a] = balances[a] - v ]_vars

\* C7 witness: the whole balance has been withdrawn and the account is at 0.
C7_Witness ==
    /\ last.op = "withdraw"
    /\ last.value = 150
    /\ last.amount = 150
    /\ balances[last.who] = 0

\* C8 as stated: deposit(v) by a registered caller with balance B returns
\* true and leaves the balance at B + v; by an unregistered caller it returns
\* false and creates no ledger entry.
C8_DepositAsStated ==
    [][ last'.op = "deposit"
        => IF Has(balances, last'.who)
           THEN /\ last'.status = "true"
                /\ balances'[last'.who] = balances[last'.who] + last'.value
           ELSE /\ last'.status = "false"
                /\ ~Has(balances', last'.who)
                /\ Cardinality(DOMAIN balances') = Cardinality(DOMAIN balances) ]_vars

\* C8 amended: deposit(v) by a registered caller with balance B, where B + v
\* is a Balance (at most the largest value of the type), returns true and
\* leaves the balance at B + v; by an unregistered caller it returns false
\* and creates no ledger entry.
C8_Deposit ==
    [][ last'.op = "deposit"
        => IF Has(balances, last'.who)
           THEN balances[last'.who] + last'.value <= BalanceMax
                => /\ last'.status = "true"
                   /\ balances'[last'.who] = balances[last'.who] + last'.value
           ELSE /\ last'.status = "false"
                /\ ~Has(balances', last'.who)
                /\ Cardinality(DOMAIN balances') = Cardinality(DOMAIN balances) ]_vars

\* C8 witness: a deposit of 50 has been added to a balance of 150.
C8_Witness ==
    /\ last.op = "deposit"
    /\ last.value = 50
    /\ last.status = "true"
    /\ balances[last.who] = 200

\* C9: from the empty contract, register(A, 1000), add_file(H), write_file(H)
\* three times and read_file(H), all by A, each succeed, and leave the
\* balance of A at 980 and the access_count of H at 4.
C9_RoundTrip ==
    /\ script \in 1..Len(Scenario) => last.status = "true"
    /\ script = Len(Scenario)
       => /\ balances["A"] = 980
          /\ Has(files, "H")
          /\ files["H"].count = 4

\* C17: once an account is registered it stays registered, also at balance 0:
\* is_user_registered never goes from true to false, num_users never
\* decreases, and it increases (by one) only on a successful register.
C17_RegisteredForever ==
    [][ /\ DOMAIN balances \subseteq DOMAIN balances'
        /\ Cardinality(DOMAIN balances') >= Cardinality(DOMAIN balances)
        /\ DOMAIN balances' # DOMAIN balances
           => /\ last'.op = "register"
              /\ last'.status = "true"
              /\ DOMAIN balances' = (DOMAIN balances) \cup {last'.who}
              /\ Cardinality(DOMAIN balances') = Cardinality(DOMAIN balances) + 1 ]_vars

\* C17 witness: both accounts are registered and one of them has just
\* withdrawn its whole balance of 1000: it is at 0 and still registered.
C17_Witness ==
    /\ last.op = "withdraw"
    /\ last.amount = 1000
    /\ is_user_registered(last.who)
    /\ balances[last.who] = 0
    /\ num_users = 2

\* C18: balance and access-count arithmetic never silently wraps: a deposit
\* whose sum is above the largest Balance, and a read_file/write_file that
\* would push access_count above the largest i32, never leave a wrapped
\* (smaller, or negative) value in the ledger or the registry.
C18_NoSilentWrap ==
    [][ /\ ( last'.op = "deposit" /\ Has(balances, last'.who) )
           => balances'[last'.who] >= balances[last'.who]
        /\ ( last'.op \in {"write_file", "read_file"} /\ Has(files, last'.hash) )
           => files'[last'.hash].count >= files[last'.hash].count ]_vars

\* C19: no call of add_file, write_file or read_file aborts on a missing
\* record: whenever charge is reached, the record it looks up is there, and
\* on the create path, where there is none yet, the cost is taken with
\* t = 0: a registered caller of add_file for a new hash is charged 3, or
\* refused when the balance is below 3.
C19_ChargeFindsRecord ==
    [][ /\ last'.op \in {"add_file", "write_file", "read_file"}
           => last'.status # "abort"
        /\ ( /\ last'.op = "add_file"
             /\ Has(balances, last'.who)
             /\ ~Has(files, last'.hash) )
           => IF balances[last'.who] >= 3
              THEN last'.status = "true"
                   /\ balances'[last'.who] = balances[last'.who] - 3
              ELSE last'.status = "false" /\ balances' = balances ]_vars

====
